---- MODULE Spec2Model ----
(***************************************************************************)
(* Model of holmesgpt_playbooks/holmes_integration.py: the two Robusta     *)
(* actions analyze_with_holmesgpt and analyze_image_pull_backoff_with_     *)
(* holmes, each a straight-line pass over one triggering event.            *)
(*                                                                         *)
(* Conventions.                                                            *)
(*  - A Python value that may be None is a sequence of length 0 or 1:      *)
(*    None is <<>>, a present value v is <<v>>.                            *)
(*  - Pod names, namespaces and container reasons are sequences of         *)
(*    one-character strings, so that concatenation and substring tests     *)
(*    are computed.  Kubernetes admits only DNS-1123 names for namespaces  *)
(*    and pods (lower-case alphanumerics, "-" and "."), which is the       *)
(*    alphabet the pools below use.                                        *)
(*  - Free text (messages, logs) is a slice [src, lo, hi) of a named       *)
(*    source string, so that s[:n], s[-n:] and len(s) are computed.        *)
(*  - The accessors of the event (get_pod, get_pod_logs, list_pod_events)  *)
(*    and the HTTP call answer nondeterministically when they are called.  *)
(*    event.get_source() and event.get_context() are taken not to raise.   *)
(***************************************************************************)
EXTENDS Integers, Sequences, FiniteSets, TLC

VARIABLES
    pc,                 \* position of the running invocation
    act,                \* the action invoked
    pod,                \* event.get_pod(): None or the pod
    pod_logs,           \* local pod_logs: None or a text
    pod_events,         \* local pod_events: <<>> while unbound, <<list>> once bound
    events_text,        \* local events_text
    pod_status,         \* local pod_status
    container_statuses, \* local container_statuses (ImagePullBackOff action)
    context,            \* local context: <<>> before it is built, <<ctx>> after
    response,           \* outcome of requests.post(...) .raise_for_status() .json()
    analysis_text,      \* local analysis_text
    posts,              \* payloads POSTed by this invocation, in order
    findings,           \* findings handed to event.add_finding by this invocation
    raised,             \* None, or the exception that left the action
    last_registered     \* what the host last received from an earlier invocation:
                        \* None, or the action, pod and key of that finding

vars == <<pc, act, pod, pod_logs, pod_events, events_text, pod_status,
          container_statuses, context, response, analysis_text, posts,
          findings, raised, last_registered>>

-----------------------------------------------------------------------------
(* Bounds of the model *)

MaxEvents == 6
MaxContainers == 2

(* Program constants *)

LogTail == 2000
MessageCut == 100
EventRows == 5
LogAttachMin == 100
ContextCut == 1000
ImagePullMessageCut == 50

-----------------------------------------------------------------------------
(* Python values *)

None == <<>>
Some(v) == <<v>>

Min(a, b) == IF a < b THEN a ELSE b
Max(a, b) == IF a > b THEN a ELSE b

Text(src, n) == [src |-> src, lo |-> 0, hi |-> n]
EmptyText == Text("", 0)
TLen(t) == t.hi - t.lo
Norm(t) == IF t.hi <= t.lo THEN EmptyText ELSE t
\* t[:n]
Prefix(t, n) == Norm([t EXCEPT !.hi = Min(t.hi, t.lo + n)])
\* t[-n:]
Suffix(t, n) == Norm([t EXCEPT !.lo = Max(t.lo, t.hi - n)])

\* x or "" for an optional text
OrEmpty(o) == IF o = None \/ TLen(o[1]) = 0 THEN EmptyText ELSE o[1]

\* str(x) inside an f-string, for an optional name
NoneChars == <<"N", "o", "n", "e">>
StrName(o) == IF o = None THEN NoneChars ELSE o[1]

\* str(x) inside an f-string, for an optional text
StrText(o) == IF o = None THEN Text("None", 4) ELSE o[1]

\* needle in hay, for strings as character sequences
Contains(needle, hay) ==
    \E i \in 0..(Len(hay) - Len(needle)) :
        SubSeq(hay, i + 1, i + Len(needle)) = needle

\* the first n entries of a list: s[:n]
Take(s, n) == SubSeq(s, 1, Min(n, Len(s)))

\* n entries of a pool, cyclically from position start
Window(pool, start, n) ==
    [i \in 1..n |-> pool[((start + i - 2) % Len(pool)) + 1]]

-----------------------------------------------------------------------------
(* The inputs an invocation can meet *)

ImagePullBackOff ==
    <<"I","m","a","g","e","P","u","l","l","B","a","c","k","O","f","f">>
ErrImagePull == <<"E","r","r","I","m","a","g","e","P","u","l","l">>
CrashLoopBackOff ==
    <<"C","r","a","s","h","L","o","o","p","B","a","c","k","O","f","f">>
OOMKilled == <<"O","O","M","K","i","l","l","e","d">>

Waiting(reason, message) == [reason |-> reason, message |-> message]
Terminated(reason, code, message) ==
    [reason |-> reason, exitCode |-> code, message |-> message]
State(w, t, r) == [waiting |-> w, terminated |-> t, running |-> r]
Status(name, ready, restarts, state) ==
    [name |-> name, image |-> "registry/img:1", ready |-> ready,
     restartCount |-> restarts, state |-> state]

NoTerminated == <<>>
NoWaiting == <<>>

ContainerPool ==
    << Status("app", FALSE, 0,
              Some(State(Some(Waiting(Some(ImagePullBackOff), None)),
                         NoTerminated, FALSE))),
       Status("web", TRUE, 0, Some(State(NoWaiting, NoTerminated, TRUE))),
       Status("job", FALSE, 3,
              Some(State(NoWaiting,
                         Some(Terminated(Some(OOMKilled), 137, None)), FALSE))),
       Status("new", FALSE, 0, None),
       Status("odd", FALSE, 0,
              Some(State(Some(Waiting(None, Some(Text("pending", 7)))),
                         NoTerminated, FALSE))),
       Status("loop", FALSE, 7,
              Some(State(Some(Waiting(Some(CrashLoopBackOff),
                                      Some(Text("back-off", ImagePullMessageCut + 1)))),
                         NoTerminated, FALSE))),
       Status("void", FALSE, 0, Some(State(NoWaiting, NoTerminated, FALSE))),
       Status("both", FALSE, 1,
              Some(State(Some(Waiting(Some(ErrImagePull), Some(Text("pull", 4)))),
                         Some(Terminated(None, 1, Some(Text("exit", 4)))),
                         TRUE))) >>

NsPool == << None, Some(<<"a">>), Some(<<"a", "-", "b">>) >>
NamePool == << <<"c">>, <<"b", "-", "c">> >>
PhasePool == << "Pending", "Running", "Failed" >>

Condition == [type |-> "Ready", status |-> "False", reason |-> None,
              message |-> Some(Text("containers not ready", 20))]

PodAt(i) ==
    [namespace |-> NsPool[(i % Len(NsPool)) + 1],
     name |-> NamePool[(i % Len(NamePool)) + 1],
     phase |-> PhasePool[(i % Len(PhasePool)) + 1],
     conditions |-> IF i % 2 = 0 THEN <<>> ELSE <<Condition>>,
     containerStatuses |->
        Window(ContainerPool, i,
               IF i = 0 THEN 0
               ELSE IF i <= Len(ContainerPool) THEN 1 ELSE MaxContainers)]

Pods == { PodAt(i) : i \in 0..(2 * Len(ContainerPool)) }

Event(type, reason, message) ==
    [type |-> type, reason |-> reason, message |-> message]

EventPool ==
    << Event("Warning", "BackOff", Some(Text("back-off restarting", 19))),
       Event("Normal", "Pulled", Some(Text("pulled image", MessageCut + 1))),
       Event("Warning", "Failed", Some(Text("failed", 6))) >>

EventNoMessage == Event("Warning", "Unhealthy", None)

\* n events of the pool, the k-th one without a message
NoMessageAt(k, n) ==
    [i \in 1..n |-> IF i = k THEN EventNoMessage ELSE Window(EventPool, 1, n)[i]]

EventLists ==
    { Window(EventPool, 1, n) : n \in 0..MaxEvents }
        \cup { NoMessageAt(1, 1), NoMessageAt(MaxEvents, MaxEvents) }

\* what event.list_pod_events() does: raise, or return a list
EventOutcomes ==
    { [raises |-> TRUE, value |-> <<>>] }
        \cup { [raises |-> FALSE, value |-> l] : l \in EventLists }

\* what event.get_pod_logs() does: raise, or return None or a text
LogOutcomes ==
    { [raises |-> TRUE, value |-> None] }
        \cup { [raises |-> FALSE, value |-> v] :
                 v \in { None,
                         Some(Text("log", 5)),
                         Some(Text("log", LogAttachMin + 1)),
                         Some(Text("log", LogTail + 1)) } }

Body(isdict, answer, analysis, repr) ==
    [isdict |-> isdict, answer |-> answer, analysis |-> analysis, repr |-> repr]
NoBody == Body(FALSE, None, None, "")

Bodies ==
    { Body(TRUE, None, Some("A"), "{'analysis': 'A'}"),
      Body(TRUE, Some("B"), None, "{'answer': 'B'}"),
      Body(TRUE, Some("B"), Some("A"), "{'answer': 'B', 'analysis': 'A'}"),
      Body(TRUE, Some(""), Some("A"), "{'answer': '', 'analysis': 'A'}"),
      Body(TRUE, None, None, "{}"),
      Body(FALSE, None, None, "['A']") }

Failure(exc, text) == [ok |-> FALSE, exc |-> exc, text |-> text, body |-> NoBody]
Success(body) == [ok |-> TRUE, exc |-> "", text |-> "", body |-> body]
NoResponse == <<>>

\* the subclasses of requests.exceptions.RequestException the call can raise
RequestExceptions == { "ReadTimeout", "ConnectionError", "HTTPError", "JSONDecodeError" }

\* what requests.post / raise_for_status / json do
HttpOutcomes ==
    { Failure("ReadTimeout", "Read timed out. (read timeout=60)"),
      Failure("ConnectionError", "Failed to establish a new connection"),
      Failure("HTTPError", "500 Server Error: Internal Server Error"),
      Failure("JSONDecodeError", "Expecting value: line 1 column 1 (char 0)"),
      Failure("ValueError", "unexpected") }
        \cup { Success(b) : b \in Bodies }

ActionNames == { "analyze_with_holmesgpt", "analyze_image_pull_backoff_with_holmes" }

-----------------------------------------------------------------------------
(* analyze_with_holmesgpt: the pure parts *)

\* the text pod_logs takes when get_pod_logs() raises
LogsPlaceholder == Text("No hay logs disponibles", 23)

\* the text events_text takes when list_pod_events() raises
EventsPlaceholder == [lit |-> "No hay eventos disponibles", lines |-> <<>>]

\* "\n".join(f"[{e.type}] {e.reason}: {e.message}" for e in pod_events)
EventsText(evs) ==
    [lit |-> "",
     lines |-> [i \in 1..Len(evs) |->
                  [type |-> evs[i].type, reason |-> evs[i].reason,
                   message |-> StrText(evs[i].message)]]]

\* c.reason if c.reason else "" (the same for message)
ConditionInfo(c) ==
    [type |-> c.type, status |-> c.status,
     reason |-> IF c.reason = None THEN <<>> ELSE c.reason[1],
     message |-> OrEmpty(c.message)]

Variant(kind, keys, reason, code, message) ==
    [kind |-> kind, keys |-> keys, reason |-> reason, exitCode |-> code,
     message |-> message]

\* StateInfo without the 'or ""' default of the messages
StateInfoRawMessage(cs) ==
    IF cs.state = None THEN <<>>
    ELSE LET s == cs.state[1] IN
         IF s.waiting # None
         THEN << Variant("waiting", {"reason", "message"},
                         s.waiting[1].reason, None,
                         IF s.waiting[1].message = None THEN None
                         ELSE Some(s.waiting[1].message[1])) >>
         ELSE IF s.terminated # None
         THEN << Variant("terminated", {"reason", "exitCode", "message"},
                         s.terminated[1].reason, Some(s.terminated[1].exitCode),
                         IF s.terminated[1].message = None THEN None
                         ELSE Some(s.terminated[1].message[1])) >>
         ELSE IF s.running
         THEN << Variant("running", {}, None, None, None) >>
         ELSE <<>>

\* the "state" entry of status_info: the sequence of the variants it holds,
\* empty when status_info gets no "state" key
StateInfo(cs) ==
    IF cs.state = None THEN <<>>
    ELSE LET s == cs.state[1] IN
         IF s.waiting # None
         THEN << Variant("waiting", {"reason", "message"},
                         s.waiting[1].reason, None,
                         Some(OrEmpty(s.waiting[1].message))) >>
         ELSE IF s.terminated # None
         THEN << Variant("terminated", {"reason", "exitCode", "message"},
                         s.terminated[1].reason, Some(s.terminated[1].exitCode),
                         Some(OrEmpty(s.terminated[1].message))) >>
         ELSE IF s.running
         THEN << Variant("running", {}, None, None, None) >>
         ELSE <<>>

StatusInfo(cs) ==
    [name |-> cs.name, ready |-> cs.ready, restartCount |-> cs.restartCount,
     image |-> cs.image, state |-> StateInfo(cs)]

PodStatus(p) ==
    [phase |-> p.phase,
     conditions |-> [i \in 1..Len(p.conditions) |-> ConditionInfo(p.conditions[i])],
     containerStatuses |->
        [i \in 1..Len(p.containerStatuses) |-> StatusInfo(p.containerStatuses[i])]]

NoPodStatus == [phase |-> "", conditions |-> <<>>, containerStatuses |-> <<>>]

\* pod_logs[-2000:] if len(pod_logs) > 2000 else pod_logs
LogsTail(logs) == IF TLen(logs) > LogTail THEN Suffix(logs, LogTail) ELSE logs

Context(p, status, evtext, logs) ==
    [namespace |-> StrName(p.namespace), pod |-> p.name, phase |-> p.phase,
     pod_status |-> status, events_text |-> evtext, logs |-> LogsTail(logs)]

Payload(ctx, p, ask) ==
    [context |-> ctx, resource_type |-> "pod", resource_name |-> p.name,
     namespace |-> p.namespace, ask |-> ask]

Truthy(o) == o # None /\ o[1] # ""

\* ExtractAnalysis with the two fields looked up in the other order
ExtractAnalysisFirst(body) ==
    IF body.isdict
    THEN IF Truthy(body.analysis) THEN body.analysis[1]
         ELSE IF Truthy(body.answer) THEN body.answer[1]
         ELSE body.repr
    ELSE body.repr

\* holmes_analysis.get("answer") or holmes_analysis.get("analysis")
\*     or str(holmes_analysis), and str(holmes_analysis) for a non-dict
ExtractAnalysis(body) ==
    IF body.isdict
    THEN IF Truthy(body.answer) THEN body.answer[1]
         ELSE IF Truthy(body.analysis) THEN body.analysis[1]
         ELSE body.repr
    ELSE body.repr

\* the failure marker, the cross mark U+274C
FailureMarker == "U+274C"

AnalysisText(marker, lead, text, trailer, ctx, cut) ==
    [marker |-> marker, lead |-> lead, text |-> text, trailer |-> trailer,
     context |-> ctx, cut |-> cut]

Plain(text) == AnalysisText("", "", text, "", <<>>, None)

\* f"<marker> Error al comunicarse con HolmesGPT: {str(e)}\n\nContexto recolectado:\n{context[:1000]}..."
RequestErrorText(r, ctx) ==
    AnalysisText(FailureMarker, "Error al comunicarse con HolmesGPT: ", r.text,
                 "Contexto recolectado:", <<ctx>>, Some(ContextCut))

\* f"<marker> Error inesperado: {str(e)}"
UnexpectedErrorText(r) ==
    AnalysisText(FailureMarker, "Error inesperado: ", r.text, "", <<>>, None)

HolmesPrefix == <<"H","o","l","m","e","s","G","P","T","_">>

\* AggregationKey with "-" between namespace and name
AggregationKeyDash(ns, name) == HolmesPrefix \o StrName(ns) \o <<"-">> \o name

\* f"HolmesGPT_{namespace}_{pod_name}"
AggregationKey(ns, name) == HolmesPrefix \o StrName(ns) \o <<"_">> \o name

\* does building the rows of the events table raise (e.message[:100] on None)
TableRaises(evs) == \E i \in 1..Len(Take(evs, EventRows)) : evs[i].message = None

\* [[e.type, e.reason, e.message[:100]] for e in pod_events[:5]]
EventsTable(evs) ==
    [i \in 1..Len(Take(evs, EventRows)) |->
        [type |-> evs[i].type, reason |-> evs[i].reason,
         message |-> Prefix(evs[i].message[1], MessageCut)]]

\* the FileBlock of the logs, when pod_logs and len(pod_logs) > 100
LogsFile(p, logs) ==
    IF logs # None /\ TLen(logs[1]) > LogAttachMin
    THEN Some([filename |-> p.name \o <<"_","l","o","g","s",".","t","x","t">>,
               contents |-> logs[1]])
    ELSE None

\* the Finding and the blocks added to it: the title, the summary markdown
\* block, the analysis markdown block, and the enrichments
Finding(kind, p, key, detail, text, table, file) ==
    [kind |-> kind,
     title |-> [namespace |-> StrName(p.namespace), name |-> p.name],
     aggregation_key |-> key, severity |-> "HIGH", finding_type |-> "ISSUE",
     summary |-> [namespace |-> StrName(p.namespace), name |-> p.name,
                  detail |-> detail],
     analysis |-> text, table |-> table, file |-> file]

-----------------------------------------------------------------------------
(* Control *)

Raise(e) == pc' = "raised" /\ raised' = Some(e)

Init ==
    /\ pc = "idle"
    /\ act = ""
    /\ pod = None
    /\ pod_logs = None
    /\ pod_events = <<>>
    /\ events_text = EventsText(<<>>)
    /\ pod_status = NoPodStatus
    /\ container_statuses = <<>>
    /\ context = <<>>
    /\ response = NoResponse
    /\ analysis_text = None
    /\ posts = <<>>
    /\ findings = <<>>
    /\ raised = None
    /\ last_registered = None

\* AfterGetPod without the "if not pod: return" guard
AfterGetPodNoCheck(a, p) ==
    IF a = "analyze_with_holmesgpt" THEN "awh_logs" ELSE "ipb_statuses"

\* pod = event.get_pod(); if not pod: return
AfterGetPod(a, p) ==
    IF p = None THEN "returned"
    ELSE IF a = "analyze_with_holmesgpt" THEN "awh_logs"
    ELSE "ipb_statuses"

\* what the host keeps of a finding it received
Registered(f, p) ==
    [kind |-> f.kind, namespace |-> p.namespace, name |-> p.name,
     aggregation_key |-> f.aggregation_key]

\* The host dispatches an event to an action; the action calls event.get_pod()
\* and returns at once when there is no pod.
Invoke ==
    /\ pc \in {"idle", "returned", "raised"}
    /\ \E a \in ActionNames, p \in {None} \cup {Some(q) : q \in Pods} :
        /\ act' = a
        /\ pod' = p
        /\ pc' = AfterGetPod(a, p)
    /\ pod_logs' = None
    /\ pod_events' = <<>>
    /\ events_text' = EventsText(<<>>)
    /\ pod_status' = NoPodStatus
    /\ container_statuses' = <<>>
    /\ context' = <<>>
    /\ response' = NoResponse
    /\ analysis_text' = None
    /\ posts' = <<>>
    /\ findings' = <<>>
    /\ raised' = None
    /\ last_registered' =
         IF findings = <<>> THEN last_registered
         ELSE Some(Registered(findings[1], pod[1]))

-----------------------------------------------------------------------------
(* analyze_with_holmesgpt *)

AWH_GetPodLogs ==
    /\ pc = "awh_logs"
    /\ \E o \in LogOutcomes :
        pod_logs' = IF o.raises THEN Some(LogsPlaceholder) ELSE o.value
    /\ pc' = "awh_events"
    /\ UNCHANGED <<act, pod, pod_events, events_text, pod_status,
                   container_statuses, context, response, analysis_text,
                   posts, findings, raised,
                   last_registered>>

AWH_ListPodEvents ==
    /\ pc = "awh_events"
    /\ \E o \in EventOutcomes :
        IF o.raises
        THEN /\ events_text' = EventsPlaceholder
             /\ UNCHANGED pod_events
        ELSE /\ pod_events' = Some(o.value)
             /\ events_text' = EventsText(o.value)
    /\ pc' = "awh_status"
    /\ UNCHANGED <<act, pod, pod_logs, pod_status, container_statuses, context,
                   response, analysis_text, posts, findings, raised,
                   last_registered>>

AWH_BuildPodStatus ==
    /\ pc = "awh_status"
    /\ pod_status' = PodStatus(pod[1])
    /\ pc' = "awh_context"
    /\ UNCHANGED <<act, pod, pod_logs, pod_events, events_text,
                   container_statuses, context, response, analysis_text,
                   posts, findings, raised,
                   last_registered>>

\* the f-string of the context evaluates len(pod_logs): a TypeError on None
AWH_BuildContext ==
    /\ pc = "awh_context"
    /\ IF pod_logs = None
       THEN /\ Raise("TypeError")
            /\ UNCHANGED context
       ELSE /\ context' = Some(Context(pod[1], pod_status, events_text, pod_logs[1]))
            /\ pc' = "awh_post"
            /\ UNCHANGED raised
    /\ UNCHANGED <<act, pod, pod_logs, pod_events, events_text, pod_status,
                   container_statuses, response, analysis_text, posts, findings,
                   last_registered>>

AWH_Post ==
    /\ pc = "awh_post"
    /\ posts' = Append(posts, Payload(context[1], pod[1], "causa raiz y solucion"))
    /\ \E h \in HttpOutcomes : response' = Some(h)
    /\ pc' = "awh_response"
    /\ UNCHANGED <<act, pod, pod_logs, pod_events, events_text, pod_status,
                   container_statuses, context, analysis_text, findings, raised,
                   last_registered>>

AWH_ExtractAnalysis ==
    /\ pc = "awh_response"
    /\ response[1].ok
    /\ analysis_text' = Some(Plain(ExtractAnalysis(response[1].body)))
    /\ pc' = "awh_finding"
    /\ UNCHANGED <<act, pod, pod_logs, pod_events, events_text, pod_status,
                   container_statuses, context, response, posts, findings, raised,
                   last_registered>>

\* AWH_RequestError that sends the request again instead of giving up
AWH_RequestErrorRetry ==
    /\ pc = "awh_response"
    /\ ~response[1].ok
    /\ response[1].exc \in RequestExceptions
    /\ pc' = "awh_post"
    /\ UNCHANGED <<act, pod, pod_logs, pod_events, events_text, pod_status,
                   container_statuses, context, response, analysis_text, posts,
                   findings, raised, last_registered>>

AWH_RequestError ==
    /\ pc = "awh_response"
    /\ ~response[1].ok
    /\ response[1].exc \in RequestExceptions
    /\ analysis_text' = Some(RequestErrorText(response[1], context[1]))
    /\ pc' = "awh_finding"
    /\ UNCHANGED <<act, pod, pod_logs, pod_events, events_text, pod_status,
                   container_statuses, context, response, posts, findings, raised,
                   last_registered>>

AWH_UnexpectedError ==
    /\ pc = "awh_response"
    /\ ~response[1].ok
    /\ response[1].exc \notin RequestExceptions
    /\ analysis_text' = Some(UnexpectedErrorText(response[1]))
    /\ pc' = "awh_finding"
    /\ UNCHANGED <<act, pod, pod_logs, pod_events, events_text, pod_status,
                   container_statuses, context, response, posts, findings, raised,
                   last_registered>>

\* Finding(...), the two markdown blocks, the events table, the logs file and
\* event.add_finding(finding).  Reading the unbound pod_events raises
\* UnboundLocalError; slicing a None message raises TypeError.
AWH_EmitFinding ==
    /\ pc = "awh_finding"
    /\ IF pod_events = <<>>
       THEN /\ Raise("UnboundLocalError")
            /\ UNCHANGED findings
       ELSE IF TableRaises(pod_events[1])
       THEN /\ Raise("TypeError")
            /\ UNCHANGED findings
       ELSE /\ findings' =
                 Append(findings,
                        Finding("pod", pod[1],
                                AggregationKey(pod[1].namespace, pod[1].name),
                                <<pod[1].phase>>,
                                analysis_text[1],
                                IF Len(pod_events[1]) > 0
                                THEN Some(EventsTable(pod_events[1])) ELSE None,
                                LogsFile(pod[1], pod_logs)))
            /\ pc' = "returned"
            /\ UNCHANGED raised
    /\ UNCHANGED <<act, pod, pod_logs, pod_events, events_text, pod_status,
                   container_statuses, context, response, analysis_text, posts,
                   last_registered>>

-----------------------------------------------------------------------------
(* analyze_image_pull_backoff_with_holmes *)

IsWaiting(cs) == cs.state # None /\ cs.state[1].waiting # None

\* "ImagePullBackOff" in reason or "ErrImagePull" in reason
IsImagePull(reason) ==
    Contains(ImagePullBackOff, reason) \/ Contains(ErrImagePull, reason)

\* does the loop over the container statuses raise ("..." in None)
ImagePullRaises(css) ==
    \E i \in 1..Len(css) : IsWaiting(css[i]) /\ css[i].state[1].waiting[1].reason = None

ImagePullEntry(cs) ==
    [name |-> cs.name, image |-> cs.image,
     reason |-> cs.state[1].waiting[1].reason[1],
     message |-> OrEmpty(cs.state[1].waiting[1].message)]

IsAffected(cs) == IsWaiting(cs) /\ IsImagePull(cs.state[1].waiting[1].reason[1])

\* the list container_statuses the loop builds
ImagePullStatuses(css) ==
    LET hit == SelectSeq(css, IsAffected)
    IN  [i \in 1..Len(hit) |-> ImagePullEntry(hit[i])]

ImagePullContext(p, statuses) ==
    [namespace |-> StrName(p.namespace), pod |-> p.name,
     container_statuses |-> statuses]

\* f"<marker> Error al comunicarse con HolmesGPT: {str(e)}\n\nContexto:\n{context}"
ImagePullErrorText(r, ctx) ==
    AnalysisText(FailureMarker, "Error al comunicarse con HolmesGPT: ", r.text,
                 "Contexto:", <<ctx>>, None)

ImagePullPrefix == <<"I","m","a","g","e","P","u","l","l","_">>

\* ImagePullAggregationKey without the ImagePull segment
ImagePullAggregationKeyPlain(ns, name) ==
    HolmesPrefix \o StrName(ns) \o <<"_">> \o name

\* f"HolmesGPT_ImagePull_{pod.metadata.namespace}_{pod.metadata.name}"
ImagePullAggregationKey(ns, name) ==
    HolmesPrefix \o ImagePullPrefix \o StrName(ns) \o <<"_">> \o name

\* [[cs['name'], cs['image'], cs['reason'], cs['message'][:50]] for cs in container_statuses]
ImagePullTable(statuses) ==
    [i \in 1..Len(statuses) |->
        [statuses[i] EXCEPT !.message = Prefix(@, ImagePullMessageCut)]]

IPB_CollectStatuses ==
    /\ pc = "ipb_statuses"
    /\ IF ImagePullRaises(pod[1].containerStatuses)
       THEN /\ Raise("TypeError")
            /\ UNCHANGED container_statuses
       ELSE /\ container_statuses' = ImagePullStatuses(pod[1].containerStatuses)
            /\ pc' = "ipb_context"
            /\ UNCHANGED raised
    /\ UNCHANGED <<act, pod, pod_logs, pod_events, events_text, pod_status,
                   context, response, analysis_text, posts, findings,
                   last_registered>>

IPB_BuildContext ==
    /\ pc = "ipb_context"
    /\ context' = Some(ImagePullContext(pod[1], container_statuses))
    /\ pc' = "ipb_post"
    /\ UNCHANGED <<act, pod, pod_logs, pod_events, events_text, pod_status,
                   container_statuses, response, analysis_text, posts,
                   findings, raised,
                   last_registered>>

IPB_Post ==
    /\ pc = "ipb_post"
    /\ posts' = Append(posts, Payload(context[1], pod[1], "ImagePullBackOff"))
    /\ \E h \in HttpOutcomes : response' = Some(h)
    /\ pc' = "ipb_response"
    /\ UNCHANGED <<act, pod, pod_logs, pod_events, events_text, pod_status,
                   container_statuses, context, analysis_text, findings, raised,
                   last_registered>>

IPB_ExtractAnalysis ==
    /\ pc = "ipb_response"
    /\ response[1].ok
    /\ analysis_text' = Some(Plain(ExtractAnalysis(response[1].body)))
    /\ pc' = "ipb_finding"
    /\ UNCHANGED <<act, pod, pod_logs, pod_events, events_text, pod_status,
                   container_statuses, context, response, posts, findings, raised,
                   last_registered>>

IPB_Error ==
    /\ pc = "ipb_response"
    /\ ~response[1].ok
    /\ analysis_text' = Some(ImagePullErrorText(response[1], context[1]))
    /\ pc' = "ipb_finding"
    /\ UNCHANGED <<act, pod, pod_logs, pod_events, events_text, pod_status,
                   container_statuses, context, response, posts, findings, raised,
                   last_registered>>

IPB_EmitFinding ==
    /\ pc = "ipb_finding"
    /\ findings' =
         Append(findings,
                Finding("image_pull", pod[1],
                        ImagePullAggregationKey(pod[1].namespace, pod[1].name),
                        [i \in 1..Len(container_statuses) |->
                            [image |-> container_statuses[i].image,
                             name |-> container_statuses[i].name]],
                        analysis_text[1],
                        IF Len(container_statuses) > 0
                        THEN Some(ImagePullTable(container_statuses)) ELSE None,
                        None))
    /\ pc' = "returned"
    /\ UNCHANGED <<act, pod, pod_logs, pod_events, events_text, pod_status,
                   container_statuses, context, response, analysis_text, posts,
                   raised,
                   last_registered>>

-----------------------------------------------------------------------------

Next ==
    \/ Invoke
    \/ AWH_GetPodLogs
    \/ AWH_ListPodEvents
    \/ AWH_BuildPodStatus
    \/ AWH_BuildContext
    \/ AWH_Post
    \/ AWH_ExtractAnalysis
    \/ AWH_RequestError
    \/ AWH_UnexpectedError
    \/ AWH_EmitFinding
    \/ IPB_CollectStatuses
    \/ IPB_BuildContext
    \/ IPB_Post
    \/ IPB_ExtractAnalysis
    \/ IPB_Error
    \/ IPB_EmitFinding

Spec == Init /\ [][Next]_vars

-----------------------------------------------------------------------------
(* The claims *)

Terminal == pc \in {"returned", "raised"}
PostFailed == response # NoResponse /\ ~response[1].ok
IsAWH == act = "analyze_with_holmesgpt"
IsIPB == act = "analyze_image_pull_backoff_with_holmes"

\* the accessors that answered gave values of the documented types: the logs
\* are a text and every listed event has a message
WellFormedInputs ==
    /\ pod_logs # None
    /\ (pod_events = <<>> \/ ~TableRaises(pod_events[1]))

\* C1 (as claimed, for well-formed accessor values): once an invocation that
\* got a pod and whose HTTP POST failed has ended, it has called
\* event.add_finding exactly once, and the analysis block of that finding
\* carries the failure marker followed by the text of the exception.
C1_FailedPostStillRegistersFinding ==
    (Terminal /\ pod # None /\ PostFailed /\ WellFormedInputs) =>
        /\ Len(findings) = 1
        /\ findings[1].analysis.marker = FailureMarker
        /\ findings[1].analysis.text = response[1].text

\* C2 (as claimed, for well-formed accessor values): once an invocation of
\* analyze_with_holmesgpt in which get_pod_logs() or list_pod_events() raised
\* has ended, the failed field holds its placeholder, the POST was issued, the
\* finding was registered and no exception left the action.
C2_CollectionFailureNeverAborts ==
    (Terminal /\ IsAWH /\ pod # None /\ WellFormedInputs
        /\ (pod_logs = Some(LogsPlaceholder) \/ events_text = EventsPlaceholder)) =>
        /\ Len(posts) = 1
        /\ Len(findings) = 1
        /\ raised = None

\* C3: when event.get_pod() returns no pod the invocation has returned, with
\* no HTTP POST issued, no finding registered and no exception raised.
C3_NoPodEndsSilently ==
    (pc # "idle" /\ pod = None) =>
        /\ pc = "returned"
        /\ posts = <<>>
        /\ response = NoResponse
        /\ findings = <<>>
        /\ raised = None

C3_Witness == pc = "returned" /\ pod = None /\ IsAWH /\ last_registered # None

\* C4 (as claimed): no invocation of either action lets an exception reach the
\* host framework.
C4_NoExceptionPropagates == raised = None

\* C5 (as claimed): on a successful response whose body is an object, the
\* analysis text (and the text shown in the finding) is the `analysis` field
\* when present, else the `answer` field when present, else str(body).
C5_AnalysisFieldPreferred ==
    (analysis_text # None /\ response # NoResponse /\ response[1].ok
        /\ response[1].body.isdict) =>
        LET b == response[1].body
            want == IF b.analysis # None THEN b.analysis[1]
                    ELSE IF b.answer # None THEN b.answer[1]
                    ELSE b.repr
        IN  /\ analysis_text[1].text = want
            /\ \A i \in 1..Len(findings) : findings[i].analysis.text = want

\* C5 (amended): on a successful response whose body is an object, the
\* analysis text (and the text shown in the finding) is the `answer` field
\* when it is present and not empty, else the `analysis` field when it is
\* present and not empty, else str(body); it carries no failure marker.
C5_AnswerFieldPreferred ==
    (analysis_text # None /\ response # NoResponse /\ response[1].ok
        /\ response[1].body.isdict) =>
        LET b == response[1].body
            want == IF b.answer # None /\ b.answer[1] # "" THEN b.answer[1]
                    ELSE IF b.analysis # None /\ b.analysis[1] # "" THEN b.analysis[1]
                    ELSE b.repr
        IN  /\ analysis_text[1].text = want
            /\ analysis_text[1].marker = ""
            /\ \A i \in 1..Len(findings) : findings[i].analysis.text = want

C5_Witness ==
    /\ Len(findings) = 1
    /\ response[1].ok
    /\ response[1].body.isdict
    /\ response[1].body.answer # None
    /\ response[1].body.analysis # None
    /\ response[1].body.answer # response[1].body.analysis
    /\ findings[1].analysis.text = response[1].body.answer[1]

C7_KeyAsSpecified ==
    \A i \in 1..Len(findings) :
        findings[i].aggregation_key =
            <<"H","o","l","m","e","s","G","P","T","_">>
                \o (IF pod[1].namespace = None THEN pod[1].name
                    ELSE pod[1].namespace[1] \o <<"_">> \o pod[1].name)

\* C7 (amended): the aggregation key of a finding registered by
\* analyze_with_holmesgpt is HolmesGPT_<namespace>_<name>, that of a finding
\* registered by analyze_image_pull_backoff_with_holmes is
\* HolmesGPT_ImagePull_<namespace>_<name>, and a pod without namespace has the
\* text None as its namespace segment.
C7_KeyPerAction ==
    \A i \in 1..Len(findings) :
        LET ns == IF pod[1].namespace = None THEN <<"N","o","n","e">>
                  ELSE pod[1].namespace[1]
            head == IF IsAWH
                    THEN <<"H","o","l","m","e","s","G","P","T","_">>
                    ELSE <<"H","o","l","m","e","s","G","P","T","_",
                           "I","m","a","g","e","P","u","l","l","_">>
        IN  findings[i].aggregation_key = head \o ns \o <<"_">> \o pod[1].name

C7_Witness ==
    /\ Len(findings) = 1
    /\ IsIPB
    /\ pod[1].namespace = None

\* C8: for two invocations of the same action that each registered a finding,
\* the keys are equal exactly when the pods have the same namespace and name,
\* whatever the logs, events, container statuses and outcome of the remote call.
C8_KeyDependsOnlyOnPod ==
    (findings # <<>> /\ last_registered # None
        /\ last_registered[1].kind = findings[1].kind) =>
        ( (/\ last_registered[1].namespace = pod[1].namespace
           /\ last_registered[1].name = pod[1].name)
          <=> last_registered[1].aggregation_key = findings[1].aggregation_key )

C8_Witness ==
    /\ findings # <<>>
    /\ last_registered # None
    /\ last_registered[1].kind = findings[1].kind
    /\ last_registered[1].namespace = pod[1].namespace
    /\ last_registered[1].name = pod[1].name
    /\ last_registered[1].aggregation_key = findings[1].aggregation_key
    /\ PostFailed
    /\ pod[1].containerStatuses # <<>>

\* C9 (as claimed): in analyze_with_holmesgpt the events of the context sent
\* to the service, and the rows of the events table of the finding, are the
\* first 5 entries of the list returned by list_pod_events(), in order, each
\* reduced to (type, reason, message); when listing fails they are an empty
\* sequence, so that reading them does not fail.
C9_AtMostFiveEvents ==
    IsAWH =>
        /\ \A i \in 1..Len(posts) :
             LET sent == posts[i].context.events_text.lines
                 evs == IF pod_events = <<>> THEN <<>> ELSE pod_events[1]
             IN  /\ Len(sent) <= EventRows
                 /\ Len(sent) = Len(Take(evs, EventRows))
                 /\ \A k \in 1..Len(sent) :
                      /\ sent[k].type = evs[k].type
                      /\ sent[k].reason = evs[k].reason
        /\ \A i \in 1..Len(findings) :
             findings[i].table # None => Len(findings[i].table[1]) <= EventRows
        /\ events_text = EventsPlaceholder => raised # Some("UnboundLocalError")

HasVariant(cs) ==
    /\ cs.state # None
    /\ (cs.state[1].waiting # None \/ cs.state[1].terminated # None
            \/ cs.state[1].running)

StatusBuilt == IsAWH /\ pod # None /\ pc \notin {"idle", "awh_logs", "awh_events", "awh_status"}

\* C10 (as claimed): every container status of the pod has a snapshot in
\* containerStatuses with its name, image, ready and restartCount and exactly
\* one state variant, whose message is never null.
C10_ExactlyOneVariant ==
    StatusBuilt =>
        /\ Len(pod_status.containerStatuses) = Len(pod[1].containerStatuses)
        /\ \A i \in 1..Len(pod_status.containerStatuses) :
             LET si == pod_status.containerStatuses[i]
             IN  /\ Len(si.state) = 1
                 /\ \A k \in 1..Len(si.state) :
                      "message" \in si.state[k].keys => si.state[k].message # None

\* C10 (amended): every container status of the pod has a snapshot in
\* containerStatuses with its name, image, ready and restartCount and at most
\* one state variant: exactly one (waiting before terminated before running)
\* when the status has a state with one of the three set, none otherwise; the
\* message of a waiting or terminated variant is never null, and is the empty
\* string when the container's message is absent.
C10_AtMostOneVariant ==
    StatusBuilt =>
        /\ Len(pod_status.containerStatuses) = Len(pod[1].containerStatuses)
        /\ \A i \in 1..Len(pod_status.containerStatuses) :
             LET si == pod_status.containerStatuses[i]
                 cs == pod[1].containerStatuses[i]
             IN  /\ si.name = cs.name
                 /\ si.image = cs.image
                 /\ si.ready = cs.ready
                 /\ si.restartCount = cs.restartCount
                 /\ Len(si.state) <= 1
                 /\ (Len(si.state) = 1 <=> HasVariant(cs))
                 /\ \A k \in 1..Len(si.state) :
                      LET v == si.state[k] IN
                      /\ v.kind = IF cs.state[1].waiting # None THEN "waiting"
                                  ELSE IF cs.state[1].terminated # None THEN "terminated"
                                  ELSE "running"
                      /\ v.kind = "waiting" =>
                           /\ v.keys = {"reason", "message"}
                           /\ v.message # None
                           /\ cs.state[1].waiting[1].message = None
                                => v.message = Some(EmptyText)
                      /\ v.kind = "terminated" =>
                           /\ v.keys = {"reason", "exitCode", "message"}
                           /\ v.message # None
                           /\ cs.state[1].terminated[1].message = None
                                => v.message = Some(EmptyText)
                      /\ v.kind = "running" => v.keys = {}

C10_Witness ==
    /\ StatusBuilt
    /\ Len(pod_status.containerStatuses) >= 2
    /\ pod_status.containerStatuses[1].state # <<>>
    /\ pod_status.containerStatuses[1].state[1].kind = "terminated"
    /\ pod_status.containerStatuses[1].state[1].message = Some(EmptyText)
    /\ pod_status.containerStatuses[2].state = <<>>

====
